---------------------------- MODULE Spec2Model ----------------------------
(* A model of flask-task-tracker: the input layer of validations.py        *)
(* (sanitize_input, TaskValidator) and the request handlers of app.py      *)
(* over the User and Task tables.                                          *)
(*                                                                         *)
(* A Python str is a sequence of one-character strings; Python's None is   *)
(* the one-element sequence None, which no str equals because its element  *)
(* has more than one character.  A flashed message or an error of a        *)
(* validator is a TLA+ string.                                             *)
EXTENDS Integers, Sequences, FiniteSets, TLC

None == <<"None">>

(* ------------------------------------------------------------------ *)
(* Python str primitives                                               *)
(* ------------------------------------------------------------------ *)

Letters ==
    {"a","b","c","d","e","f","g","h","i","j","k","l","m","n","o","p","q",
     "r","s","t","u","v","w","x","y","z",
     "A","B","C","D","E","F","G","H","I","J","K","L","M","N","O","P","Q",
     "R","S","T","U","V","W","X","Y","Z"}

DigitChars == <<"0","1","2","3","4","5","6","7","8","9">>

Digits == {DigitChars[i] : i \in 1..10}

isalnum(c) == c \in Letters \cup Digits

isspace(c) == c \in {" ", "\t", "\n", "\r"}

\* the literal of validate_title: '.,!?-_()[]{}:;"\''
TitlePunctuation ==
    {".", ",", "!", "?", "-", "_", "(", ")", "[", "]", "{", "}", ":", ";",
     "\"", "'"}

\* Python truthiness of an optional str: None and '' are falsy
Truthy(v) == v # None /\ v # <<>>

RECURSIVE lstrip(_)
lstrip(s) ==
    IF s # <<>> /\ isspace(Head(s)) THEN lstrip(Tail(s)) ELSE s

RECURSIVE rstrip(_)
rstrip(s) ==
    IF s # <<>> /\ isspace(s[Len(s)])
    THEN rstrip(SubSeq(s, 1, Len(s) - 1))
    ELSE s

strip(s) == rstrip(lstrip(s))

startswith(s, sub) ==
    Len(sub) <= Len(s) /\ SubSeq(s, 1, Len(sub)) = sub

\* sub in s
contains(s, sub) ==
    \E i \in 1..(Len(s) - Len(sub) + 1) : SubSeq(s, i, i + Len(sub) - 1) = sub

\* s.find(sub), 1-based, for a sub that s contains
find(s, sub) ==
    CHOOSE i \in 1..(Len(s) - Len(sub) + 1) :
        /\ SubSeq(s, i, i + Len(sub) - 1) = sub
        /\ \A j \in 1..(i - 1) : SubSeq(s, j, j + Len(sub) - 1) # sub

\* str.replace(sub, ''): the non-overlapping occurrences of sub, found left
\* to right in one pass over s, are dropped
RECURSIVE replace(_, _)
replace(s, sub) ==
    IF ~contains(s, sub) THEN s
    ELSE SubSeq(s, 1, find(s, sub) - 1)
         \o replace(SubSeq(s, find(s, sub) + Len(sub), Len(s)), sub)

Rep(c, n) == [i \in 1..n |-> c]

(* ------------------------------------------------------------------ *)
(* sanitize_input                                                      *)
(* ------------------------------------------------------------------ *)

ScriptOpen  == <<"<","s","c","r","i","p","t",">">>
ScriptClose == <<"<","/","s","c","r","i","p","t",">">>
JavascriptColon == <<"j","a","v","a","s","c","r","i","p","t",":">>
OnerrorEq == <<"o","n","e","r","r","o","r","=">>
OnclickEq == <<"o","n","c","l","i","c","k","=">>

\* the chain of replace calls, in the order of the source
StripDenylist(value) ==
    replace(replace(replace(replace(replace(value,
        ScriptOpen), ScriptClose), JavascriptColon), OnerrorEq), OnclickEq)

sanitize_input(value) ==
    IF value = None THEN None
    ELSE IF strip(value) = <<>> THEN None
    ELSE StripDenylist(strip(value))

(* ------------------------------------------------------------------ *)
(* datetime: strptime(s, '%Y-%m-%d').date() and datetime(y, m, d)      *)
(* ------------------------------------------------------------------ *)

\* a date is <<year, month, day>>; a call that raises ValueError returns
\* [ok |-> FALSE]
ValueError == [ok |-> FALSE, date |-> <<0, 0, 0>>]

IsLeap(y) == (y % 4 = 0 /\ y % 100 # 0) \/ y % 400 = 0

DaysInMonth(y, m) ==
    IF m = 2 THEN (IF IsLeap(y) THEN 29 ELSE 28)
    ELSE IF m \in {4, 6, 9, 11} THEN 30 ELSE 31

\* datetime(year, month, day): ValueError unless it is a calendar date
datetime(y, m, d) ==
    IF y >= 1 /\ y <= 9999 /\ m >= 1 /\ m <= 12 /\ d >= 1
       /\ d <= DaysInMonth(y, m)
    THEN [ok |-> TRUE, date |-> <<y, m, d>>]
    ELSE ValueError

\* date.__lt__: by year, then month, then day
DateLess(a, b) ==
    \/ a[1] < b[1]
    \/ a[1] = b[1] /\ a[2] < b[2]
    \/ a[1] = b[1] /\ a[2] = b[2] /\ a[3] < b[3]

DigitVal(c) == (CHOOSE i \in 1..10 : DigitChars[i] = c) - 1

AllDigits(s) == \A i \in 1..Len(s) : s[i] \in Digits

RECURSIVE DecimalValue(_)
DecimalValue(s) ==
    IF s = <<>> THEN 0
    ELSE 10 * DecimalValue(SubSeq(s, 1, Len(s) - 1)) + DigitVal(s[Len(s)])

\* the fields of s between its '-' characters
RECURSIVE SplitDash(_)
SplitDash(s) ==
    IF \A i \in 1..Len(s) : s[i] # "-" THEN <<s>>
    ELSE LET k == CHOOSE i \in 1..Len(s) :
                      s[i] = "-" /\ \A j \in 1..(i - 1) : s[j] # "-"
         IN <<SubSeq(s, 1, k - 1)>> \o SplitDash(SubSeq(s, k + 1, Len(s)))

\* %Y is \d\d\d\d; %m is 1[0-2]|0[1-9]|[1-9]; %d is
\* 3[01]|[12]\d|0[1-9]|[1-9]| [1-9]; the whole string must be consumed
YearField(f) == Len(f) = 4 /\ AllDigits(f)

MonthField(f) ==
    /\ Len(f) \in {1, 2}
    /\ AllDigits(f)
    /\ DecimalValue(f) \in 1..12

DayField(f) ==
    \/ Len(f) \in {1, 2} /\ AllDigits(f) /\ DecimalValue(f) \in 1..31
    \/ Len(f) = 2 /\ f[1] = " " /\ f[2] \in Digits /\ f[2] # "0"

DayValue(f) == IF f[1] = " " THEN DigitVal(f[2]) ELSE DecimalValue(f)

strptime(s) ==
    LET f == SplitDash(s) IN
    IF Len(f) = 3 /\ YearField(f[1]) /\ MonthField(f[2]) /\ DayField(f[3])
    THEN datetime(DecimalValue(f[1]), DecimalValue(f[2]), DayValue(f[3]))
    ELSE ValueError

(* ------------------------------------------------------------------ *)
(* TaskValidator                                                       *)
(* ------------------------------------------------------------------ *)

MinTitleLen == 3
MaxTitleLen == 200
MaxDescriptionLen == 1000
MaxFutureYears == 5

ErrTitleRequired == "Task title is required."
ErrTitleShort == "Task title must be at least 3 characters long."
ErrTitleLong == "Task title cannot exceed 200 characters."
ErrTitleChars == "Task title contains invalid characters."
ErrDescriptionLong == "Description cannot exceed 1000 characters."
ErrPriority == "Invalid priority. Must be one of: Low, Medium, High."
ErrDatePast == "Due date cannot be in the past."
ErrDateFar == "Due date is too far in the future (max 5 years)."
ErrDateFormat == "Invalid date format. Please use YYYY-MM-DD format."

Low == <<"L","o","w">>
Medium == <<"M","e","d","i","u","m">>
High == <<"H","i","g","h">>
NoneStr == <<"N","o","n","e">>

\* a validator's return value: (len(errors) == 0, errors)
Result(errors) == [valid |-> Len(errors) = 0, errors |-> errors]

If(cond, error) == IF cond THEN <<error>> ELSE <<>>

TitleCharOk(c) == isalnum(c) \/ isspace(c) \/ c \in TitlePunctuation

validate_title(title) ==
    IF ~Truthy(title) THEN [valid |-> FALSE, errors |-> <<ErrTitleRequired>>]
    ELSE LET t == strip(title) IN
         Result(If(Len(t) < MinTitleLen, ErrTitleShort)
                \o If(Len(t) > MaxTitleLen, ErrTitleLong)
                \o If(~ \A i \in 1..Len(t) : TitleCharOk(t[i]), ErrTitleChars))

validate_description(description) ==
    IF Truthy(description)
    THEN Result(If(Len(strip(description)) > MaxDescriptionLen,
                   ErrDescriptionLong))
    ELSE Result(<<>>)

validate_priority(priority) ==
    Result(If(Truthy(priority) /\ priority \notin {Low, Medium, High},
              ErrPriority))

\* today is datetime.now().date(), read during the call
validate_due_date(due_date, today) ==
    IF ~Truthy(due_date) THEN Result(<<>>)
    ELSE LET parsed == strptime(due_date) IN
         IF ~parsed.ok THEN Result(<<ErrDateFormat>>)
         ELSE LET past == If(DateLess(parsed.date, today), ErrDatePast)
                  max_future_date ==
                      datetime(today[1] + MaxFutureYears, today[2], today[3])
              IN IF ~max_future_date.ok
                 THEN Result(past \o <<ErrDateFormat>>)
                 ELSE Result(past \o If(DateLess(max_future_date.date,
                                                 parsed.date), ErrDateFar))

\* a validate_task_data that returns at the first validator that fails
validate_task_data_fail_fast(title, description, priority, due_date, today) ==
    IF ~validate_title(title).valid THEN validate_title(title)
    ELSE IF ~validate_description(description).valid
    THEN validate_description(description)
    ELSE IF ~validate_priority(priority).valid
    THEN validate_priority(priority)
    ELSE validate_due_date(due_date, today)

\* all_errors.extend(errors) under "if not is_valid"
Extend(all_errors, r) ==
    IF ~r.valid THEN all_errors \o r.errors ELSE all_errors

validate_task_data(title, description, priority, due_date, today) ==
    Result(Extend(Extend(Extend(Extend(<<>>,
        validate_title(title)),
        validate_description(description)),
        validate_priority(priority)),
        validate_due_date(due_date, today)))

(* ------------------------------------------------------------------ *)
(* app.py: the tables, the sessions and the request in hand            *)
(* ------------------------------------------------------------------ *)

VARIABLES
    users,      \* the user table: rows [id, username, email, password_hash]
    tasks,      \* the task table: rows [id, title, ..., completed, user_id]
    session,    \* session[c]: <<>> or <<user_id, username>> of client c
    pending,    \* pending[c]: <<>>, or <<form>> while c's register request
                \* is between its existence check and its commit
    req,        \* the request (or call) handled by the last step
    resp        \* its response (or return value)

vars == <<users, tasks, session, pending, req, resp>>

Clients == {"c1", "c2"}

\* the largest task id the model lets the table hand out
MaxTaskId == 2

MinUsernameLen == 3
MinPasswordLen == 6

\* int(s): optional sign, then digits, surrounding whitespace ignored
int(s) ==
    LET t == strip(s)
        body == IF t # <<>> /\ t[1] \in {"+", "-"} THEN Tail(t) ELSE t
    IN IF body # <<>> /\ AllDigits(body)
       THEN [ok |-> TRUE,
             value |-> IF t[1] = "-" THEN 0 - DecimalValue(body)
                       ELSE DecimalValue(body)]
       ELSE [ok |-> FALSE, value |-> 0]

\* werkzeug's generate_password_hash / check_password_hash: a one-way
\* image of the password (the random salt is left out: a hash is compared
\* only with the hash of a candidate under the same salt)
generate_password_hash(password) == <<"pbkdf2:sha256$">> \o password

check_password_hash(password_hash, password) ==
    password # None /\ password_hash = generate_password_hash(password)

\* the integer primary key of a new row: one more than the largest in use
NextId(table) ==
    IF table = {} THEN 1
    ELSE (CHOOSE i \in {r.id : r \in table} : \A r \in table : r.id <= i) + 1

\* a user table without the unique constraints
NoUniqueConstraint(table, row) == TRUE

\* unique=True on username and on email: the INSERT is refused otherwise
UniqueConstraintOk(table, row) ==
    \A u \in table : u.username # row.username /\ u.email # row.email

\* db.session.commit(): the session's unit of work, rows to replace (old)
\* by rows (new), reaches the table
commit(table, old, new) == (table \ old) \cup new

\* a rollback that leaves the unit of work in the table
rollback_keeps_changes(table, old, new) == (table \ old) \cup new

\* db.session.rollback(): the unit of work is dropped, the table is as it
\* was at the last commit
rollback(table, old, new) == table

\* User.query.filter_by(username=...).first() and the same by email
ByUsername(username) == {u \in users : u.username = username}
ByEmail(email) == {u \in users : u.email = email}

\* a lookup by id alone
FindTaskOfAnyUser(table, task_id, user_id) == {t \in table : t.id = task_id}

\* Task.query.filter_by(id=task_id, user_id=user_id): the rows found
\* (first_or_404 raises NotFound when there is none)
FindTask(table, task_id, user_id) ==
    {t \in table : t.id = task_id /\ t.user_id = user_id}

\* get_safe_form_data(request, field_name, default)
get_safe_form_data(form, field_name, default) ==
    sanitize_input(IF form[field_name] = None THEN default
                   ELSE form[field_name])

\* a handler without the login_required decorator
login_not_required(c) == TRUE

\* 'user_id' in session
login_required(c) == session[c] # <<>>

\* session.get('user_id')
SessionUserId(c) == IF session[c] = <<>> THEN 0 ELSE session[c][1]

Response(to, flash, rendered) ==
    [to |-> to, flash |-> flash, tasks |-> rendered]

ToLogin == Response("login", <<"Please log in to access this page.">>, {})

\* form is the form posted (a task form by its name in TaskForms, "" for
\* no form); now is the reading of the clock the handler gets (<<>> when it
\* reads none)
Request(action, c, method, task_id, form) ==
    [action |-> action, client |-> c, method |-> method,
     task_id |-> task_id, form |-> form, now |-> <<>>]

TaskRequest(action, c, method, task_id, form, now) ==
    [action |-> action, client |-> c, method |-> method,
     task_id |-> task_id, form |-> form, now |-> now]

NoForm == ""

(* ------------------------------------------------------------------ *)
(* the requests the clients send                                       *)
(* ------------------------------------------------------------------ *)

Alice == <<"a","l","i","c","e">>
Bob == <<"b","o","b">>
BobPadded == <<" ","b","o","b"," ">>
EmailA == <<"a","@","x",".","i","o">>
EmailB == <<"b","@","x",".","i","o">>
Secret1 == <<"s","e","c","r","e","t","1">>
Hunter22 == <<"h","u","n","t","e","r","2","2">>

RegisterForm(username, email, password, confirm_password) ==
    [username |-> username, email |-> email, password |-> password,
     confirm_password |-> confirm_password]

RegisterForms ==
    { RegisterForm(Alice, EmailA, Secret1, Secret1),
      RegisterForm(BobPadded, EmailB, Hunter22, Hunter22),
      \* alice's username with bob's email
      RegisterForm(Alice, EmailB, Hunter22, Hunter22),
      \* short username, no '@', short password, mismatch
      RegisterForm(<<"a","l">>, <<"x",".","i","o">>, <<"a","b","c">>,
                   <<"a","b","d">>) }

LoginForm(username, password) ==
    [username |-> username, password |-> password]

LoginForms ==
    { LoginForm(Alice, Secret1), LoginForm(Alice, Hunter22),
      LoginForm(BobPadded, Hunter22) }

BuyMilk == <<"B","u","y"," ","m","i","l","k">>
NotStarted == <<"N","o","t"," ","S","t","a","r","t","e","d">>
Done == <<"D","o","n","e">>

TaskForm(title, description, priority, due_date, status, duration) ==
    [title |-> title, description |-> description, priority |-> priority,
     due_date |-> due_date, status |-> status, duration |-> duration]

\* no priority field in the form
FormNoPriorityField == TaskForm(BuyMilk, None, None, None, None, None)

\* a title wrapped in script tags and blanks, an empty priority, a due
\* date, a negative duration
FormEmptyPriority ==
    TaskForm(<<" ">> \o ScriptOpen \o BuyMilk \o ScriptClose \o <<" ">>,
             <<"2"," ","l">>, <<>>,
             <<"2","0","2","4","-","0","3","-","0","1">>, None, <<"-","5">>)

\* a short title, a description of 1001 characters, an unknown priority,
\* an unparsable date
FormInvalid ==
    TaskForm(<<"a","#">>, Rep("x", MaxDescriptionLen + 1),
             <<"U","r","g","e","n","t">>, <<"s","o","o","n">>, None, None)

\* valid fields and a duration that is no integer
FormBadDuration ==
    TaskForm(<<"C","a","l","l"," ","B","o","b","!">>, <<"s","o","o","n">>,
             High, None, Done, <<"a","b","c">>)

\* the task forms a client may post; a request names the form it carries
TaskForms ==
    [no_priority_field |-> FormNoPriorityField,
     empty_priority |-> FormEmptyPriority, invalid |-> FormInvalid,
     bad_duration |-> FormBadDuration]

FormNames == DOMAIN TaskForms

\* the readings of datetime.now().date() a request may get
AppDays == {<<2024, 2, 28>>}

TaskIds == 1..MaxTaskId

Init ==
    /\ users = {}
    /\ tasks = {}
    /\ session = [c \in Clients |-> <<>>]
    /\ pending = [c \in Clients |-> <<>>]
    /\ req = Request("start", "", "", 0, NoForm)
    /\ resp = Response("", <<>>, {})

(* ------------------------------------------------------------------ *)
(* register, login, logout                                             *)
(* ------------------------------------------------------------------ *)

\* the errors list of register, lines 83-102
RegisterErrors(form) ==
    LET username == get_safe_form_data(form, "username", None)
        email == get_safe_form_data(form, "email", None)
        password == form.password
    IN If(~Truthy(username) \/ Len(username) < MinUsernameLen,
          "Username must be at least 3 characters long.")
       \o If(~Truthy(email) \/ "@" \notin {email[i] : i \in 1..Len(email)},
             "Please enter a valid email address.")
       \o If(~Truthy(password) \/ Len(password) < MinPasswordLen,
             "Password must be at least 6 characters long.")
       \o If(password # form.confirm_password, "Passwords do not match.")
       \o If(ByUsername(username) # {}, "Username already exists.")
       \o If(ByEmail(email) # {}, "Email already registered.")

\* register, up to the existence checks: the request goes on to its commit
\* (register_commit) when errors is empty
register(c, method, form) ==
    /\ pending[c] = <<>>
    /\ req' = Request("register", c, method, 0, form)
    /\ UNCHANGED <<users, tasks, session>>
    /\ IF session[c] # <<>>
       THEN /\ resp' = Response("index", <<>>, {})
            /\ UNCHANGED pending
       ELSE IF method = "GET"
       THEN /\ resp' = Response("register.html", <<>>, {})
            /\ UNCHANGED pending
       ELSE IF RegisterErrors(form) # <<>>
       THEN /\ resp' = Response("register.html", RegisterErrors(form), {})
            /\ UNCHANGED pending
       ELSE /\ resp' = Response("", <<>>, {})
            /\ pending' = [pending EXCEPT ![c] = <<form>>]

\* the row User(username=..., email=...) with set_password(password)
NewUser(form) ==
    [id |-> NextId(users),
     username |-> get_safe_form_data(form, "username", None),
     email |-> get_safe_form_data(form, "email", None),
     password_hash |-> generate_password_hash(form.password)]

\* register, from db.session.add(new_user) on
register_commit(c, storeOk) ==
    /\ pending[c] # <<>>
    /\ LET form == pending[c][1]
           new_user == NewUser(form)
       IN /\ req' = Request("register_commit", c, "POST", 0, form)
          /\ IF storeOk /\ UniqueConstraintOk(users, new_user)
             THEN /\ users' = commit(users, {}, {new_user})
                  /\ resp' = Response("login",
                         <<"Registration successful! Please log in.">>, {})
             ELSE /\ users' = rollback(users, {}, {new_user})
                  /\ resp' = Response("register.html",
                                      <<"Registration error">>, {})
    /\ pending' = [pending EXCEPT ![c] = <<>>]
    /\ UNCHANGED <<tasks, session>>

\* user.check_password(password)
check_password(user, password) ==
    check_password_hash(user.password_hash, password)

login(c, method, form) ==
    /\ pending[c] = <<>>
    /\ req' = Request("login", c, method, 0, form)
    /\ UNCHANGED <<users, tasks, pending>>
    /\ IF session[c] # <<>>
       THEN /\ resp' = Response("index", <<>>, {})
            /\ UNCHANGED session
       ELSE IF method = "GET"
       THEN /\ resp' = Response("login.html", <<>>, {})
            /\ UNCHANGED session
       ELSE LET found == ByUsername(get_safe_form_data(form, "username",
                                                       None))
            IN IF \E user \in found : check_password(user, form.password)
               THEN LET user == CHOOSE u \in found :
                                    check_password(u, form.password)
                    IN /\ session' = [session EXCEPT
                                         ![c] = <<user.id, user.username>>]
                       /\ resp' = Response("index", <<"Welcome back">>, {})
               ELSE /\ resp' = Response("login.html",
                                   <<"Invalid username or password.">>, {})
                    /\ UNCHANGED session

logout(c) ==
    /\ pending[c] = <<>>
    /\ req' = Request("logout", c, "GET", 0, NoForm)
    /\ UNCHANGED <<users, tasks, pending>>
    /\ IF ~login_required(c)
       THEN /\ resp' = ToLogin
            /\ UNCHANGED session
       ELSE /\ session' = [session EXCEPT ![c] = <<>>]
            /\ resp' = Response("login", <<"Goodbye">>, {})

(* ------------------------------------------------------------------ *)
(* index, add_task, edit_task, toggle_task, delete_task                *)
(* ------------------------------------------------------------------ *)

\* what a handler leaves: the task table and the response
Outcome(table, response) == [tasks |-> table, resp |-> response]

\* Task.query.filter_by(user_id=user_id): the rows index renders (their
\* order and days_left are left out)
index(c) ==
    /\ pending[c] = <<>>
    /\ req' = Request("index", c, "GET", 0, NoForm)
    /\ UNCHANGED <<users, tasks, session, pending>>
    /\ IF ~login_required(c)
       THEN resp' = ToLogin
       ELSE resp' = Response("index.html", <<>>,
                        {t \in tasks : t.user_id = SessionUserId(c)})

\* the four fields as add_task and edit_task read them, lines 194-197
ReadFields(form) ==
    [title |-> get_safe_form_data(form, "title", None),
     description |-> get_safe_form_data(form, "description", None),
     priority |-> get_safe_form_data(form, "priority", NoneStr),
     due_date |-> get_safe_form_data(form, "due_date", None)]

\* ReadFields and the validation of its result, tabulated over the forms
\* and clock readings of the model
FieldsTable == [name \in FormNames |-> ReadFields(TaskForms[name])]

ValidateTable ==
    [name \in FormNames |->
        [now \in AppDays |->
            validate_task_data(FieldsTable[name].title,
                               FieldsTable[name].description,
                               FieldsTable[name].priority,
                               FieldsTable[name].due_date, now)]]

\* a handler that goes on whatever the validator returned
ValidateIgnored(name, now) == Result(<<>>)

Fields(name) == FieldsTable[name]

\* TaskValidator.validate_task_data(title=..., ...) of lines 200-205
Validate(name, now) == ValidateTable[name][now]

\* request.form.get("status") or "Not Started"
StatusOf(form) == IF Truthy(form.status) THEN form.status ELSE NotStarted

\* int(request.form.get("duration") or 0)
DurationOf(form) ==
    IF Truthy(form.duration) THEN int(form.duration)
    ELSE [ok |-> TRUE, value |-> 0]

\* Task(title=..., ..., user_id=user_id), completed by its default
NewTask(table, f, form, user_id) ==
    [id |-> NextId(table),
     title |-> f.title,
     description |-> IF Truthy(f.description) THEN f.description ELSE None,
     priority |-> f.priority,
     due_date |-> f.due_date,
     status |-> StatusOf(form),
     duration |-> DurationOf(form).value,
     completed |-> FALSE,
     user_id |-> user_id]

AddedResponse == Response("index", <<"Task added successfully!">>, {})

add_task_outcome(c, name, now, storeOk) ==
    LET form == TaskForms[name]
        f == Fields(name)
        v == Validate(name, now)
        new_task == NewTask(tasks, f, form, SessionUserId(c))
    IN IF ~v.valid THEN Outcome(tasks, Response("index", v.errors, {}))
       ELSE IF ~DurationOf(form).ok
       THEN Outcome(rollback(tasks, {}, {}),
                    Response("index", <<"Error adding task: ValueError">>,
                             {}))
       ELSE IF ~storeOk
       THEN Outcome(rollback(tasks, {}, {new_task}),
                    Response("index", <<"Error adding task: store">>, {}))
       ELSE Outcome(commit(tasks, {}, {new_task}), AddedResponse)

\* storeOk is drawn where the handler reaches db.session.commit()
AddCommits(c, name, now) ==
    login_required(c) /\ Validate(name, now).valid
    /\ DurationOf(TaskForms[name]).ok

add_task(c, name, now, storeOk) ==
    /\ pending[c] = <<>>
    /\ NextId(tasks) <= MaxTaskId
    /\ ~storeOk => AddCommits(c, name, now)
    /\ req' = TaskRequest("add", c, "POST", 0, name, now)
    /\ UNCHANGED <<users, session, pending>>
    /\ IF ~login_required(c)
       THEN resp' = ToLogin /\ UNCHANGED tasks
       ELSE LET out == add_task_outcome(c, name, now, storeOk)
            IN tasks' = out.tasks /\ resp' = out.resp

NotFound(what) == Response("index", <<what, "404 Not Found">>, {})

\* the assignments of lines 262-266, made before int() is called
EditedButDuration(task, f, form) ==
    [task EXCEPT !.title = f.title,
                 !.description = f.description,
                 !.priority = IF Truthy(f.priority) THEN f.priority
                              ELSE NoneStr,
                 !.due_date = f.due_date,
                 !.status = StatusOf(form)]

edit_task_outcome(c, task_id, method, name, now, storeOk) ==
    LET found == FindTask(tasks, task_id, SessionUserId(c)) IN
    IF found = {}
    THEN Outcome(rollback(tasks, {}, {}), NotFound("Error updating task:"))
    ELSE LET task == CHOOSE t \in found : TRUE
             form == TaskForms[name]
             f == Fields(name)
             v == Validate(name, now)
             dirty == EditedButDuration(task, f, form)
         IN IF method = "GET"
            THEN Outcome(tasks, Response("edit.html", <<>>, {task}))
            ELSE IF ~v.valid
            THEN Outcome(tasks, Response("edit.html", v.errors, {task}))
            ELSE IF ~DurationOf(form).ok
            THEN Outcome(rollback(tasks, {task}, {dirty}),
                         Response("index",
                                  <<"Error updating task: ValueError">>, {}))
            ELSE IF ~storeOk
            THEN Outcome(rollback(tasks, {task},
                             {[dirty EXCEPT
                                  !.duration = DurationOf(form).value]}),
                         Response("index", <<"Error updating task: store">>,
                                  {}))
            ELSE Outcome(commit(tasks, {task},
                             {[dirty EXCEPT
                                  !.duration = DurationOf(form).value]}),
                         Response("index", <<"Task updated successfully!">>,
                                  {}))

EditCommits(c, task_id, name, now) ==
    login_required(c) /\ FindTask(tasks, task_id, SessionUserId(c)) # {}
    /\ Validate(name, now).valid /\ DurationOf(TaskForms[name]).ok

edit_task(c, task_id, method, name, now, storeOk) ==
    /\ pending[c] = <<>>
    /\ ~storeOk => EditCommits(c, task_id, name, now)
    /\ req' = TaskRequest("edit", c, method, task_id, name, now)
    /\ UNCHANGED <<users, session, pending>>
    /\ IF ~login_required(c)
       THEN resp' = ToLogin /\ UNCHANGED tasks
       ELSE LET out == edit_task_outcome(c, task_id, method, name, now,
                                         storeOk)
            IN tasks' = out.tasks /\ resp' = out.resp

toggle_task_outcome(c, task_id, storeOk) ==
    LET found == FindTask(tasks, task_id, SessionUserId(c)) IN
    IF found = {}
    THEN Outcome(rollback(tasks, {}, {}), NotFound("Error toggling task:"))
    ELSE LET task == CHOOSE t \in found : TRUE
             toggled == [task EXCEPT !.completed = ~task.completed]
         IN IF ~storeOk
            THEN Outcome(rollback(tasks, {task}, {toggled}),
                         Response("index", <<"Error toggling task: store">>,
                                  {}))
            ELSE Outcome(commit(tasks, {task}, {toggled}),
                         Response("index",
                             <<IF toggled.completed
                               THEN "Task completed successfully!"
                               ELSE "Task reopened successfully!">>, {}))

Commits(c, task_id) ==
    login_required(c) /\ FindTask(tasks, task_id, SessionUserId(c)) # {}

toggle_task(c, task_id, storeOk) ==
    /\ pending[c] = <<>>
    /\ ~storeOk => Commits(c, task_id)
    /\ req' = Request("toggle", c, "POST", task_id, NoForm)
    /\ UNCHANGED <<users, session, pending>>
    /\ IF ~login_required(c)
       THEN resp' = ToLogin /\ UNCHANGED tasks
       ELSE LET out == toggle_task_outcome(c, task_id, storeOk)
            IN tasks' = out.tasks /\ resp' = out.resp

delete_task_outcome(c, task_id, storeOk) ==
    LET found == FindTask(tasks, task_id, SessionUserId(c)) IN
    IF found = {}
    THEN Outcome(rollback(tasks, {}, {}), NotFound("Error deleting task:"))
    ELSE LET task == CHOOSE t \in found : TRUE
         IN IF ~storeOk
            THEN Outcome(rollback(tasks, {task}, {}),
                         Response("index", <<"Error deleting task: store">>,
                                  {}))
            ELSE Outcome(commit(tasks, {task}, {}),
                         Response("index", <<"Task deleted successfully!">>,
                                  {}))

delete_task(c, task_id, storeOk) ==
    /\ pending[c] = <<>>
    /\ ~storeOk => Commits(c, task_id)
    /\ req' = Request("delete", c, "POST", task_id, NoForm)
    /\ UNCHANGED <<users, session, pending>>
    /\ IF ~login_required(c)
       THEN resp' = ToLogin /\ UNCHANGED tasks
       ELSE LET out == delete_task_outcome(c, task_id, storeOk)
            IN tasks' = out.tasks /\ resp' = out.resp

\* one browser, whose requests the server handles one at a time
Browser == "c1"

Next ==
    \/ register(Browser, "GET", NoForm)
    \/ \E form \in RegisterForms : register(Browser, "POST", form)
    \/ \E storeOk \in BOOLEAN : register_commit(Browser, storeOk)
    \/ login(Browser, "GET", NoForm)
    \/ \E form \in LoginForms : login(Browser, "POST", form)
    \/ logout(Browser)
    \/ index(Browser)
    \/ \E name \in FormNames, now \in AppDays, storeOk \in BOOLEAN :
           add_task(Browser, name, now, storeOk)
    \/ \E id \in TaskIds : edit_task(Browser, id, "GET", "", <<>>, TRUE)
    \/ \E id \in TaskIds, name \in FormNames, now \in AppDays,
          storeOk \in BOOLEAN :
           edit_task(Browser, id, "POST", name, now, storeOk)
    \/ \E id \in TaskIds, storeOk \in BOOLEAN :
           toggle_task(Browser, id, storeOk)
    \/ \E id \in TaskIds, storeOk \in BOOLEAN :
           delete_task(Browser, id, storeOk)

Spec == Init /\ [][Next]_vars

\* the account pages under a threaded server: the requests of two clients
\* interleave, a register request may run between the existence check and
\* the commit of another
NextAccounts ==
    \/ \E c \in Clients, form \in RegisterForms : register(c, "POST", form)
    \/ \E c \in Clients, storeOk \in BOOLEAN : register_commit(c, storeOk)
    \/ \E c \in Clients, form \in LoginForms : login(c, "POST", form)
    \/ \E c \in Clients : logout(c)

SpecAccounts == Init /\ [][NextAccounts]_vars

(* ------------------------------------------------------------------ *)
(* the functions of validations.py, called on their own                *)
(* ------------------------------------------------------------------ *)

SanitizeInputs ==
    { None,
      <<>>, <<" "," "," ">>, <<"h","e","l","l","o">>,
      <<" "," ","<","s","c","r","i","p","t",">","a","l","e","r","t","(","1",
        ")","<","/","s","c","r","i","p","t",">"," "," ">>,
      <<"<","s","c","r","i","p","t",">">>,
      <<"<","s","c","r","<","s","c","r","i","p","t",">","i","p","t",">","a",
        "l","e","r","t","(","1",")">>,
      <<"j","a","v","a","j","a","v","a","s","c","r","i","p","t",":","s","c",
        "r","i","p","t",":","a","l","e","r","t","(","1",")">>,
      <<"<","a"," ","o","n","c","l","i","c","k","=","g","o","(",")",">">>,
      <<" "," ","o","n","<","s","c","r","i","p","t",">","e","r","r","o","r",
        "=","x"," ">>,
      <<"a"," ","<","/","s","c","r","i","p","t",">"," ","b">>,
      <<" ","2"," ","l"," ">> }

DueDateInputs ==
    { None,
      <<>>, <<"n","o","t","-","a","-","d","a","t","e">>,
      <<"2","0","2","4","-","0","2","-","2","7">>,
      <<"2","0","2","4","-","0","2","-","2","8">>,
      <<"2","0","2","4","-","0","2","-","2","9">>,
      <<"2","0","2","4","-","0","3","-","0","1">>,
      <<"2","0","2","3","-","0","2","-","2","9">>,
      <<"2","0","2","4","-","1","3","-","0","1">>,
      <<"2","0","2","8","-","1","2","-","3","1">>,
      <<"2","0","2","9","-","0","2","-","2","8">>,
      <<"2","0","2","9","-","0","3","-","0","1">>,
      <<"2","0","2","9","-","0","3","-","0","2">>,
      <<"2","0","9","9","-","0","1","-","0","1">>,
      <<"2","0","2","4","-","0","3","-","0","1","x">>,
      <<"2","4","-","0","3","-","0","1">> }

\* the readings of datetime.now().date(): the days around a leap day and a
\* last day of a year
Todays == {<<2023, 12, 31>>, <<2024, 2, 28>>, <<2024, 2, 29>>, <<2024, 3, 1>>}

TitleInputs ==
    { None, <<"a","b">>, <<"a","#","c">>, BuyMilk, <<" ","a","b"," ">>,
      Rep("a", MaxTitleLen), Rep("a", MaxTitleLen + 1) }

DescriptionInputs ==
    { None, <<"2"," ","l">>, Rep("x", MaxDescriptionLen),
      Rep("x", MaxDescriptionLen + 1) }

PriorityInputs == { None, Low, Medium, High, NoneStr, <<"l","o","w">> }

TaskDueInputs ==
    { None, <<"n","o","t","-","a","-","d","a","t","e">>,
      <<"2","0","2","4","-","0","2","-","2","7">>,
      <<"2","0","2","4","-","0","3","-","0","1">> }

\* a call of a function of validations.py: the arguments in form, the
\* clock reading in now; method is "call" until the function has returned
\* its value in resp, and "return" from then on
Call(function, args, now) ==
    TaskRequest(function, "", "call", 0, args, now)

SanitizeCalls ==
    {Call("sanitize_input", value, <<>>) : value \in SanitizeInputs}

DueDateCalls ==
    {Call("validate_due_date", due_date, today) :
         due_date \in DueDateInputs, today \in Todays}

TaskDataCalls ==
    {Call("validate_task_data",
          [title |-> title, description |-> description,
           priority |-> priority, due_date |-> due_date], today) :
         title \in TitleInputs, description \in DescriptionInputs,
         priority \in PriorityInputs, due_date \in TaskDueInputs,
         today \in Todays}

InitValidations ==
    /\ users = {}
    /\ tasks = {}
    /\ session = [c \in Clients |-> <<>>]
    /\ pending = [c \in Clients |-> <<>>]
    /\ \/ req \in SanitizeCalls
       \/ req \in DueDateCalls
       \/ req \in TaskDataCalls
    /\ resp = Response("", <<>>, {})

Return(value) ==
    /\ req.method = "call"
    /\ req' = [req EXCEPT !.method = "return"]
    /\ resp' = value
    /\ UNCHANGED <<users, tasks, session, pending>>

call_sanitize_input ==
    /\ req.action = "sanitize_input"
    /\ Return(sanitize_input(req.form))

call_validate_due_date ==
    /\ req.action = "validate_due_date"
    /\ Return(validate_due_date(req.form, req.now))

call_validate_task_data ==
    /\ req.action = "validate_task_data"
    /\ Return(validate_task_data(req.form.title, req.form.description,
                                 req.form.priority, req.form.due_date,
                                 req.now))

NextValidations ==
    \/ call_sanitize_input
    \/ call_validate_due_date
    \/ call_validate_task_data

SpecValidations == InitValidations /\ [][NextValidations]_vars

(* ------------------------------------------------------------------ *)
(* properties                                                          *)
(* ------------------------------------------------------------------ *)

\* the user of the session of the client whose request the step handled
SessionUserOf(r) == session[r.client][1]

NotFoundResponse(r) ==
    r.to = "index" /\ Len(r.flash) = 2 /\ r.flash[2] = "404 Not Found"

\* the request handled by the step names a task another user owns
ForeignTaskRequest ==
    /\ req'.action \in {"edit", "toggle", "delete"}
    /\ session[req'.client] # <<>>
    /\ \E t \in tasks :
           t.id = req'.task_id /\ t.user_id # SessionUserOf(req')

\* C1: an edit, toggle or delete request made under session user A with
\* the id of a task that another user B owns is answered as not found,
\* leaves the task table as it was, and renders no task
C1_ForeignTaskUntouched ==
    [][ForeignTaskRequest =>
           /\ tasks' = tasks
           /\ NotFoundResponse(resp')
           /\ resp'.tasks = {}]_vars

\* C1 witness: two users own identically titled tasks, and the delete of
\* one's task by the other has been answered as not found
C1_Witness ==
    /\ req.action = "delete"
    /\ session[req.client] # <<>>
    /\ NotFoundResponse(resp)
    /\ \E t, u \in tasks :
           /\ t.id = req.task_id
           /\ t.user_id # SessionUserOf(req)
           /\ u.user_id = SessionUserOf(req)
           /\ u.title = t.title

\* the username or the email of the form belongs to a row of the table
Taken(form) ==
    \E u \in users :
        \/ u.username = sanitize_input(form.username)
        \/ u.email = sanitize_input(form.email)

UniqueUsers(table) ==
    \A u, v \in table :
        u # v => u.id # v.id /\ u.username # v.username /\ u.email # v.email

\* C2: no two users share a username or an email, and a register request
\* whose username or email belongs to a user, at its existence check or,
\* after another request got in between, at its commit, creates no row and
\* shows the registration form again
C2_UniqueAccounts ==
    [][/\ UniqueUsers(users')
       /\ (req'.action \in {"register", "register_commit"}
           /\ req'.method = "POST" /\ Taken(req'.form))
          => /\ users' = users
             /\ pending'[req'.client] = <<>>
             /\ resp'.to \in {"register.html", "index"}]_vars

\* C2 witness: a register request passed its existence check, and at its
\* commit the table held its username or email: the commit was refused
C2_Witness ==
    /\ req.action = "register_commit"
    /\ resp.to = "register.html"
    /\ Taken(req.form)
    /\ \A u \in users :
           u.password_hash # generate_password_hash(req.form.password)

\* the add request's title, description and due date pass their
\* validators, it has no priority field, its duration is an integer or
\* absent, and the store did not fail
ValidAddWithoutPriority ==
    /\ req.action = "add"
    /\ session[req.client] # <<>>
    /\ TaskForms[req.form].priority = None
    /\ validate_title(Fields(req.form).title).valid
    /\ validate_description(Fields(req.form).description).valid
    /\ validate_due_date(Fields(req.form).due_date, req.now).valid
    /\ DurationOf(TaskForms[req.form]).ok
    /\ resp.flash # <<"Error adding task: store">>

\* C3: an add request of a logged-in session with valid title, description
\* and due date and no priority creates a task for the session user
C3_AddWithoutPriorityCreates ==
    ValidAddWithoutPriority =>
        /\ resp = AddedResponse
        /\ \E t \in tasks :
               /\ t.user_id = SessionUserOf(req)
               /\ t.title = Fields(req.form).title

\* today plus five years, as a triple (compared as a date is)
FiveYearsAfter(today) == <<today[1] + MaxFutureYears, today[2], today[3]>>

Has(errors, e) == \E i \in 1..Len(errors) : errors[i] = e

\* C4: validate_due_date reports the format error exactly when the string
\* does not parse, the past-date error exactly when the parsed date is
\* before today, the too-far error exactly when it is more than 5 years
\* after today, and returns valid exactly when the date is absent or lies
\* in [today, today + 5 years]
C4_DueDateRules ==
    (req.action = "validate_due_date" /\ req.method = "return") =>
        IF ~Truthy(req.form) THEN resp.valid /\ resp.errors = <<>>
        ELSE LET p == strptime(req.form) IN
             /\ Has(resp.errors, ErrDateFormat) <=> ~p.ok
             /\ p.ok =>
                    /\ Has(resp.errors, ErrDatePast)
                           <=> DateLess(p.date, req.now)
                    /\ Has(resp.errors, ErrDateFar)
                           <=> DateLess(FiveYearsAfter(req.now), p.date)
             /\ resp.valid <=> /\ p.ok
                               /\ ~DateLess(p.date, req.now)
                               /\ ~DateLess(FiveYearsAfter(req.now), p.date)

AddOrEditFailure ==
    {<<"Error adding task: ValueError">>, <<"Error adding task: store">>,
     <<"Error updating task: ValueError">>,
     <<"Error updating task: store">>}

\* the request of the step is an add or an edit of a task of the session
\* user, posted with fields that pass validation
ValidatedPost ==
    /\ req'.action \in {"add", "edit"}
    /\ req'.method = "POST"
    /\ session[req'.client] # <<>>
    /\ req'.action = "edit" =>
           \E t \in tasks :
               t.id = req'.task_id /\ t.user_id = SessionUserOf(req')
    /\ Validate(req'.form, req'.now).valid

\* C5: an add or edit request that fails after validation has passed, on a
\* duration that is no integer or on a store failure at commit, leaves the
\* task table exactly as it was
C5_FailureLeavesStore ==
    [][ValidatedPost =>
           /\ ~DurationOf(TaskForms[req'.form]).ok
                  => resp'.flash \in AddOrEditFailure
           /\ resp'.flash \in AddOrEditFailure => tasks' = tasks]_vars

\* C5 witness: an edit of a stored task with valid fields and a duration
\* that is no integer has failed
C5_Witness ==
    /\ req.action = "edit"
    /\ resp.flash = <<"Error updating task: ValueError">>
    /\ \E t \in tasks :
           /\ t.id = req.task_id
           /\ t.title # Fields(req.form).title

\* C6: every stored task has a duration that is a non-negative integer
C6_DurationNonNegative == \A t \in tasks : t.duration \in Nat

\* the rules of the validators that do not read the clock, on a stored row
StoredFieldsValid(t) ==
    /\ Len(strip(t.title)) >= MinTitleLen
    /\ Len(strip(t.title)) <= MaxTitleLen
    /\ \A i \in 1..Len(t.title) :
           \/ t.title[i] \in Letters \cup Digits
           \/ t.title[i] \in {" ", "\t", "\n", "\r"}
           \/ t.title[i] \in TitlePunctuation
    /\ \/ t.description = None
       \/ Len(strip(t.description)) <= MaxDescriptionLen
    /\ t.priority \in {None, NoneStr, Low, Medium, High}

\* C7: every stored task has a title of trimmed length 3 to 200 in the
\* allowed characters, a description that is absent or of trimmed length
\* at most 1000, and a priority that is absent, 'None', Low, Medium or
\* High; and a request whose fields fail validation changes no task
C7_StoredTasksValid ==
    [][/\ \A t \in tasks' : StoredFieldsValid(t)
       /\ (req'.action \in {"add", "edit"} /\ req'.method = "POST"
           /\ ~Validate(req'.form, req'.now).valid)
          => tasks' = tasks]_vars

\* C7 witness: with a task stored by an edit (priority 'None'), an add
\* whose title, description, priority and due date all fail was refused
C7_Witness ==
    /\ req.action = "add"
    /\ session[req.client] # <<>>
    /\ Has(resp.flash, ErrTitleShort)
    /\ Has(resp.flash, ErrDescriptionLong)
    /\ \E t \in tasks : t.priority = NoneStr

\* C8: validate_task_data returns the errors of the title, description,
\* priority and due date validators, all four run, in that order, and is
\* valid exactly when the four are
C8_TaskDataCollectsAll ==
    (req.action = "validate_task_data" /\ req.method = "return") =>
        LET t == validate_title(req.form.title)
            d == validate_description(req.form.description)
            p == validate_priority(req.form.priority)
            u == validate_due_date(req.form.due_date, req.now)
        IN /\ resp.errors = t.errors \o d.errors \o p.errors \o u.errors
           /\ resp.valid <=> (t.valid /\ d.valid /\ p.valid /\ u.valid)

\* C8 witness: a call with a title, a description, a priority and a due
\* date that are all invalid has returned one error of each
C8_Witness ==
    /\ req.action = "validate_task_data"
    /\ req.method = "return"
    /\ ~resp.valid
    /\ Has(resp.errors, ErrTitleShort)
    /\ Has(resp.errors, ErrDescriptionLong)
    /\ Has(resp.errors, ErrPriority)
    /\ Has(resp.errors, ErrDatePast)

Denylist ==
    {ScriptOpen, ScriptClose, JavascriptColon, OnerrorEq, OnclickEq}

\* C9: sanitize_input returns None when the input is None or blank, and
\* otherwise a string in which no denylisted substring occurs
C9_SanitizedHasNoDenylisted ==
    (req.action = "sanitize_input" /\ req.method = "return") =>
        IF req.form = None \/ strip(req.form) = <<>> THEN resp = None
        ELSE /\ resp # None
             /\ \A d \in Denylist : ~contains(resp, d)

TaskPages == {"add", "edit", "toggle", "delete", "index"}

\* C10: without a user id in the session, a request of a task page is
\* redirected to login and changes no task; and a session gets a user id
\* only by a login whose username is a user's and whose password matches
\* that user's stored credential
C10_LoginRequired ==
    [][/\ (req'.action \in TaskPages /\ session[req'.client] = <<>>)
          => tasks' = tasks /\ resp' = ToLogin
       /\ \A c \in Clients :
              (session[c] = <<>> /\ session'[c] # <<>>)
              => /\ req'.action = "login"
                 /\ req'.client = c
                 /\ \E u \in users :
                        /\ u.username = sanitize_input(req'.form.username)
                        /\ check_password_hash(u.password_hash,
                                               req'.form.password)
                        /\ session'[c] = <<u.id, u.username>>]_vars

\* C10 witness: after a logout, with tasks in the table, a delete request
\* was redirected to login
C10_Witness ==
    /\ req.action = "delete"
    /\ session[req.client] = <<>>
    /\ resp = ToLogin
    /\ \E t \in tasks : t.id = req.task_id

====
